---- MODULE Spec2Model ----
(***************************************************************************)
(* Thread-state transition protocol of                                     *)
(* src/hotspot/share/runtime/interfaceSupport.inline.hpp.                  *)
(*                                                                         *)
(* Mutator threads carry a JavaThreadState and change it through the       *)
(* transition classes (TransitionFromSafeToVM, TransitionFromUnsafe,       *)
(* TransitionFromVMToJava) and the scoped guards built on them.  Every     *)
(* routine is a sequence of calls; a thread executes them one call per     *)
(* step, so that a coordinator (the safepoint mechanism) may interleave    *)
(* between any two of them.  Assertions are those of a debug build: a      *)
(* failed assert or fatal() aborts the process.                            *)
(***************************************************************************)
EXTENDS Naturals, Sequences, FiniteSets

\* Scoped guards alive at the same time, over all threads.
MaxGuards == 2

Threads == {"t1", "t2"}

\* JavaThreadState values used by the transition classes.
_thread_new       == "_thread_new"
_thread_in_Java   == "_thread_in_Java"
_thread_in_vm     == "_thread_in_vm"
_thread_in_native == "_thread_in_native"
_thread_blocked   == "_thread_blocked"

\* The four states of the legality table.
States == {_thread_in_Java, _thread_in_vm, _thread_in_native, _thread_blocked}

\* The states a transition may be asked to leave: the columns of the table.
FromStates == States \cup {_thread_new}

NULL == "NULL"

\* A thread that is not a JavaThread has no JavaThreadState.
no_thread_state == "none"

VARIABLES
  thread_state,          \* JavaThread::_thread_state, per thread
  pc,                    \* "body" | "run" | "wait" | "tcall" | "tdone" | "off"
  cur,                   \* the routine being executed: its remaining calls
  guards,                \* stack of live scoped guards, innermost last
  walkable,              \* frame_anchor()->walkable()
  has_last_Java_frame,   \* JavaThread::has_last_Java_frame()
  yellow_zone_disabled,  \* stack_yellow_reserved_zone_disabled()
  owns_locks,            \* Thread::owns_locks()
  is_compiler,           \* Thread::is_Compiler_thread()
  poll_armed,            \* the thread-local poll: a request is pending
  in_flight_mutex,       \* the caller's Mutex* slot (*_in_flight_mutex_addr)
  release_count,         \* calls of release_for_safepoint() by the live guard
  phase,                 \* coordinator: "idle" | "syncing" | "at_safepoint"
  counted,               \* threads the coordinator counted as stopped
  aborted,               \* a fatal error / failed assert ended the process
  call,                  \* direct caller of transition(): its arguments
  current,               \* what Thread::current() is on the thread
  no_safepoint_count,    \* live NoSafepointVerifier scopes of the thread
  dictionary,            \* one bucket of a Dictionary and a reader of it
  has_async_exception,   \* an asynchronous exception is queued for the thread
  lock_holder            \* who holds lock L: a thread, "VMThread" or NULL

\* The other specifications have no dictionary.
NoDictionary == "none"

vars == <<thread_state, pc, cur, guards, walkable, has_last_Java_frame,
          yellow_zone_disabled, owns_locks, is_compiler, poll_armed,
          in_flight_mutex, release_count, phase, counted, aborted, call,
          current, no_safepoint_count, dictionary, has_async_exception,
          lock_holder>>

----------------------------------------------------------------------------
\* Thread::current() on thread t: "JavaThread", "Thread" (a thread of the
\* VM that is not a JavaThread) or NULL (a thread not attached, the case
\* the constructor of ThreadInStatefromUnknown tests for).
Thread_current(t) == current[t]

is_Java_thread(t) == current[t] = "JavaThread"

JavaThreads == { t \in Threads : is_Java_thread(t) }

\* ThreadStateTransitionBase::is_safe / is_unsafe

is_safe(state) == state = _thread_in_native \/ state = _thread_blocked

is_unsafe(state) == ~is_safe(state)

\* safepoint_state()->is_at_poll_safepoint(): set only inside the poll-page
\* handler, which calls none of the transitions modelled here.
is_at_poll_safepoint(t) == FALSE

----------------------------------------------------------------------------
\* The three transition routines as the sequences of calls they make.

\* Mutant: the poll is read before the new state is published.
TransitionFromSafeToVM_PollFirst ==
  << "assert_SafeToVM", "check_possible_safepoint",
     "process_if_requested", "set_thread_state_fence" >>

\* Mutant: Runtime is published with the plain store.
TransitionFromSafeToVM_PlainStore ==
  << "assert_SafeToVM", "check_possible_safepoint", "set_thread_state",
     "process_if_requested" >>

\* TransitionFromSafeToVM::trans
TransitionFromSafeToVM ==
  << "assert_SafeToVM", "check_possible_safepoint",
     "set_thread_state_fence", "process_if_requested" >>

\* Mutant: the new state is never stored.
TransitionFromUnsafe_NoStore(from) ==
  IF from = _thread_in_Java
    THEN << "assert_Unsafe", "make_walkable" >>
    ELSE << "assert_Unsafe" >>

\* Mutant: the new state is stored before the stack is made walkable.
TransitionFromUnsafe_StoreFirst(from) ==
  IF from = _thread_in_Java
    THEN << "assert_Unsafe", "set_thread_state", "make_walkable" >>
    ELSE << "assert_Unsafe", "set_thread_state" >>

\* Mutant: the stack is not made walkable.
TransitionFromUnsafe_NoWalkable(from) ==
  << "assert_Unsafe", "set_thread_state" >>

\* Mutant: the transition checks for a pending request after the store.
TransitionFromUnsafe_Poll(from) ==
  IF from = _thread_in_Java
    THEN << "assert_Unsafe", "make_walkable", "set_thread_state",
            "process_if_requested" >>
    ELSE << "assert_Unsafe", "set_thread_state", "process_if_requested" >>

\* Mutant: the stack is made walkable before the asserts.
TransitionFromUnsafe_WalkableFirst(from) ==
  IF from = _thread_in_Java
    THEN << "make_walkable", "assert_Unsafe", "set_thread_state" >>
    ELSE << "assert_Unsafe", "set_thread_state" >>

\* TransitionFromUnsafe::trans
TransitionFromUnsafe(from) ==
  IF from = _thread_in_Java
    THEN << "assert_Unsafe", "make_walkable", "set_thread_state" >>
    ELSE << "assert_Unsafe", "set_thread_state" >>

\* Mutant: Managed is published before the check for a pending request.
TransitionFromVMToJava_StoreFirst ==
  << "assert_VMToJava", "enable_stack_yellow_reserved_zone",
     "check_possible_safepoint", "set_thread_state",
     "process_if_requested_with_exit_check" >>

\* Mutant: the check for a pending request is left out.
TransitionFromVMToJava_NoPoll ==
  << "assert_VMToJava", "enable_stack_yellow_reserved_zone",
     "check_possible_safepoint", "set_thread_state" >>

\* Mutant: the transition returns without storing Managed.
TransitionFromVMToJava_NoStore ==
  << "assert_VMToJava", "enable_stack_yellow_reserved_zone",
     "check_possible_safepoint", "process_if_requested_with_exit_check" >>

\* Mutant: the yellow/reserved zone is not re-enabled.
TransitionFromVMToJava_NoEnable ==
  << "assert_VMToJava", "check_possible_safepoint",
     "process_if_requested_with_exit_check", "set_thread_state" >>

\* TransitionFromVMToJava<ASYNC>::trans
TransitionFromVMToJava ==
  << "assert_VMToJava", "enable_stack_yellow_reserved_zone",
     "check_possible_safepoint", "process_if_requested_with_exit_check",
     "set_thread_state" >>

\* ThreadStateTransitionBase<ASYNC>::transition
transition(from, to) ==
  IF to = _thread_in_Java THEN TransitionFromVMToJava
  ELSE IF is_unsafe(from) THEN TransitionFromUnsafe(from)
  ELSE IF is_safe(from) /\ to = _thread_in_vm THEN TransitionFromSafeToVM
  ELSE << "fatal" >>

\* The asserts of each routine (debug build).
assert_SafeToVM(from, to) ==
  /\ (from = _thread_in_native \/ from = _thread_blocked)
  /\ to = _thread_in_vm

\* Mutant: the lock assert is left out.
assert_Unsafe_NoLockCheck(t, from, to) ==
  /\ from # _thread_in_native /\ from # _thread_blocked
  /\ (to # _thread_in_Java \/ is_at_poll_safepoint(t))
  /\ IF from = _thread_in_Java
       THEN to = _thread_in_native \/ to = _thread_in_vm
       ELSE ~has_last_Java_frame[t] \/ walkable[t]

assert_Unsafe(t, from, to) ==
  /\ from # _thread_in_native /\ from # _thread_blocked
  /\ (to # _thread_in_Java \/ is_at_poll_safepoint(t))
  /\ (is_compiler[t] \/ ~owns_locks[t] \/ to # _thread_in_native)
  /\ IF from = _thread_in_Java
       THEN to = _thread_in_native \/ to = _thread_in_vm
       ELSE ~has_last_Java_frame[t] \/ walkable[t]

\* Mutant: the state is not checked (asserts compiled out).
assert_VMToJava_Off(t) == TRUE

assert_VMToJava(t) == thread_state[t] = _thread_in_vm

\* JavaThread::check_possible_safepoint(): the assert "Possible safepoint
\* reached by thread that does not allow it" holds when the thread is in no
\* NoSafepointVerifier scope.
check_possible_safepoint(t) == no_safepoint_count[t] = 0

----------------------------------------------------------------------------
\* Scoped guards.

\* typedef ThreadStateTransition<FROM, TO, ASYNC> ...
JTS_FROM(kind) ==
  CASE kind = "ThreadInVMfromJava"                 -> _thread_in_Java
    [] kind = "ThreadInVMfromJavaNoAsyncException" -> _thread_in_Java
    [] kind = "ThreadInVMfromNative"               -> _thread_in_native
    [] kind = "ThreadBlockInVM"                    -> _thread_in_vm
    [] kind = "ThreadToNativeFromVM"               -> _thread_in_vm
    [] OTHER                                       -> "none"

JTS_TO(kind) ==
  CASE kind = "ThreadInVMfromJava"                 -> _thread_in_vm
    [] kind = "ThreadInVMfromJavaNoAsyncException" -> _thread_in_vm
    [] kind = "ThreadInVMfromNative"               -> _thread_in_vm
    [] kind = "ThreadBlockInVM"                    -> _thread_blocked
    [] kind = "ThreadToNativeFromVM"               -> _thread_in_native
    [] kind = "ThreadInVMfromUnknown"              -> _thread_in_vm
    [] kind = "JvmtiThreadEventTransition"         -> _thread_in_native
    [] OTHER                                       -> "none"

\* Mutant: every guard allows asynchronous exceptions.
ASYNC_All(kind) == TRUE

ASYNC(kind) ==
  CASE kind = "ThreadInVMfromJava"                 -> TRUE
    [] kind = "ThreadInVMfromJavaNoAsyncException" -> FALSE
    [] kind = "ThreadInVMfromNative"               -> TRUE
    [] kind = "ThreadBlockInVM"                    -> TRUE
    [] kind = "ThreadToNativeFromVM"               -> FALSE
    [] OTHER                                       -> FALSE

TransitionKinds ==
  { "ThreadInVMfromJava", "ThreadInVMfromJavaNoAsyncException",
    "ThreadInVMfromNative", "ThreadBlockInVM", "ThreadToNativeFromVM" }

UnknownKinds == { "ThreadInVMfromUnknown", "JvmtiThreadEventTransition" }

DeadlockKinds == { "ThreadBlockInVMWithDeadlockCheck" }

\* The guards the callers of this file construct in each thread state
\* (JRT_ENTRY in Java, JNI_ENTRY/JVM_ENTRY in native, Mutex and VM code in
\* the VM, callbacks of unknown context anywhere).
GuardsIn(state) ==
  CASE state = _thread_in_Java ->
         { "ThreadInVMfromJava", "ThreadInVMfromJavaNoAsyncException",
           "ThreadInVMfromUnknown" }
    [] state = _thread_in_native ->
         { "ThreadInVMfromNative", "ThreadInVMfromUnknown" }
    [] state = _thread_in_vm ->
         { "ThreadBlockInVM", "ThreadToNativeFromVM",
           "ThreadBlockInVMWithDeadlockCheck", "ThreadInVMfromUnknown" }
    [] state = _thread_blocked -> { "ThreadInVMfromUnknown" }
    [] OTHER -> {}

NoCur ==
  [from |-> "none", to |-> "none", async |-> FALSE, steps |-> << >>,
   ret |-> "none", polled |-> "none", waited |-> FALSE,
   delivered |-> FALSE]

Routine(from, to, async, steps, ret) ==
  [from |-> from, to |-> to, async |-> async, steps |-> steps,
   ret |-> ret, polled |-> "none", waited |-> FALSE, delivered |-> FALSE]

Top(t) == guards[t][Len(guards[t])]

TopKind(t) == IF guards[t] = << >> THEN "none" ELSE Top(t).kind

RECURSIVE LiveGuards(_)
LiveGuards(S) ==
  IF S = {} THEN 0
  ELSE LET t == CHOOSE x \in S : TRUE
       IN  Len(guards[t]) + LiveGuards(S \ {t})

\* ThreadStateTransition::ThreadStateTransition
ThreadStateTransition_ctor(kind) ==
  Routine(JTS_FROM(kind), JTS_TO(kind), ASYNC(kind),
          transition(JTS_FROM(kind), JTS_TO(kind)), "ctor")

\* Mutant: the destructor makes no transition.
ThreadStateTransition_dtor_Empty(kind) ==
  Routine(JTS_TO(kind), JTS_FROM(kind), ASYNC(kind), << >>, "dtor")

\* ThreadStateTransition::~ThreadStateTransition (also run, as the base
\* class destructor, after ~ThreadStateTransitionHandleMark)
ThreadStateTransition_dtor(kind) ==
  Routine(JTS_TO(kind), JTS_FROM(kind), ASYNC(kind),
          transition(JTS_TO(kind), JTS_FROM(kind)), "dtor")

\* Mutant: the constructor makes the transition whatever the thread and its
\* state are.
ThreadInStatefromUnknown_ctor_Always(t, kind) ==
  Routine(thread_state[t], JTS_TO(kind), ASYNC(kind),
          transition(thread_state[t], JTS_TO(kind)), "ctor")

\* ThreadInStatefromUnknown::ThreadInStatefromUnknown on thread t
ThreadInStatefromUnknown_ctor(t, kind) ==
  IF Thread_current(t) = NULL \/ ~is_Java_thread(t)
    THEN Routine(no_thread_state, JTS_TO(kind), ASYNC(kind), << >>, "ctor")
    ELSE LET _state == thread_state[t]
         IN  IF _state = JTS_TO(kind)
               THEN Routine(_state, JTS_TO(kind), ASYNC(kind), << >>, "ctor")
               ELSE Routine(_state, JTS_TO(kind), ASYNC(kind),
                            transition(_state, JTS_TO(kind)), "ctor")

\* ThreadInStatefromUnknown::~ThreadInStatefromUnknown
ThreadInStatefromUnknown_dtor(kind, g) ==
  IF g._thread
    THEN Routine(JTS_TO(kind), g._state, ASYNC(kind),
                 transition(JTS_TO(kind), g._state), "dtor")
    ELSE Routine(JTS_TO(kind), g._state, ASYNC(kind), << >>, "dtor")

\* Mutant: the constructor checks for a pending request after the store.
ThreadBlockInVMWithDeadlockCheck_ctor_Poll ==
  Routine(_thread_in_vm, _thread_blocked, FALSE,
          << "set_thread_state", "process_if_requested" >>, "ctor")

\* ThreadBlockInVMWithDeadlockCheck::ThreadBlockInVMWithDeadlockCheck
\* (OrderAccess::storestore() orders stores only; the model's memory is
\* sequentially consistent)
ThreadBlockInVMWithDeadlockCheck_ctor ==
  Routine(_thread_in_vm, _thread_blocked, FALSE,
          << "set_thread_state" >>, "ctor")

\* Mutant: the destructor stores Runtime and returns without reading
\* should_process.
ThreadBlockInVMWithDeadlockCheck_dtor_NoCheck ==
  Routine(_thread_blocked, _thread_in_vm, FALSE,
          << "set_thread_state_fence" >>, "dtor")

\* Mutant: the destructor releases the in-flight mutex without asking
\* should_process.
ThreadBlockInVMWithDeadlockCheck_dtor_AlwaysRelease ==
  Routine(_thread_blocked, _thread_in_vm, FALSE,
          << "set_thread_state_fence", "release_mutex",
             "process_if_requested" >>, "dtor")

\* Mutant: the destructor waits without releasing the in-flight mutex.
ThreadBlockInVMWithDeadlockCheck_dtor_NoRelease ==
  Routine(_thread_blocked, _thread_in_vm, FALSE,
          << "set_thread_state_fence", "should_process",
             "process_if_requested" >>, "dtor")

\* Mutant: the destructor waits first and releases the in-flight mutex
\* afterwards.
ThreadBlockInVMWithDeadlockCheck_dtor_WaitFirst ==
  Routine(_thread_blocked, _thread_in_vm, FALSE,
          << "set_thread_state_fence", "should_process",
             "process_if_requested", "release_mutex" >>, "dtor")

\* ThreadBlockInVMWithDeadlockCheck::~ThreadBlockInVMWithDeadlockCheck
ThreadBlockInVMWithDeadlockCheck_dtor ==
  Routine(_thread_blocked, _thread_in_vm, FALSE,
          << "set_thread_state_fence", "should_process",
             "release_mutex", "process_if_requested" >>, "dtor")

Ctor(t, kind) ==
  IF kind \in TransitionKinds THEN ThreadStateTransition_ctor(kind)
  ELSE IF kind \in UnknownKinds THEN ThreadInStatefromUnknown_ctor(t, kind)
  ELSE ThreadBlockInVMWithDeadlockCheck_ctor

Dtor(g) ==
  IF g.kind \in TransitionKinds THEN ThreadStateTransition_dtor(g.kind)
  ELSE IF g.kind \in UnknownKinds THEN ThreadInStatefromUnknown_dtor(g.kind, g)
  ELSE ThreadBlockInVMWithDeadlockCheck_dtor

----------------------------------------------------------------------------
\* Initial states.

Init ==
  /\ \E k \in {"JavaThread", "Thread", NULL} :
       current = [t \in Threads |-> IF t = "t1" THEN "JavaThread" ELSE k]
  /\ thread_state \in
       [Threads -> {_thread_in_Java, _thread_in_native, no_thread_state}]
  /\ \A t \in Threads : thread_state[t] = no_thread_state <=> ~is_Java_thread(t)
  /\ pc = [t \in Threads |-> "body"]
  /\ cur = [t \in Threads |-> NoCur]
  /\ guards = [t \in Threads |-> << >>]
  /\ walkable = [t \in Threads |-> FALSE]
  /\ has_last_Java_frame = [t \in Threads |-> thread_state[t] = _thread_in_Java]
  /\ yellow_zone_disabled = [t \in Threads |-> FALSE]
  /\ owns_locks = [t \in Threads |-> FALSE]
  /\ is_compiler = [t \in Threads |-> FALSE]
  /\ poll_armed = [t \in Threads |-> FALSE]
  /\ in_flight_mutex = [t \in Threads |-> NULL]
  /\ release_count = [t \in Threads |-> 0]
  /\ phase = "idle"
  /\ counted = {}
  /\ aborted = FALSE
  /\ call = [actual |-> "none", from |-> "none", to |-> "none",
             async |-> FALSE, stage |-> 0]
  /\ has_async_exception = [t \in Threads |-> FALSE]
  /\ lock_holder = NULL
  /\ dictionary = NoDictionary
  /\ no_safepoint_count = [t \in Threads |-> 0]

----------------------------------------------------------------------------
\* One call of the routine a thread is executing.

At(t, op) ==
  /\ ~aborted
  /\ pc[t] = "run"
  /\ cur[t].steps # << >>
  /\ Head(cur[t].steps) = op

Advance(t) == cur' = [cur EXCEPT ![t].steps = Tail(@)]

ThreadVars ==
  <<walkable, has_last_Java_frame, yellow_zone_disabled, owns_locks,
    is_compiler, in_flight_mutex, release_count, current,
    no_safepoint_count, dictionary, lock_holder>>

CoordVars == <<poll_armed, phase, counted>>

\* fatal("Illegal state change")
Fatal(t) ==
  /\ At(t, "fatal")
  /\ aborted' = TRUE
  /\ UNCHANGED <<thread_state, pc, cur, guards, ThreadVars, CoordVars, call,
                 has_async_exception>>

\* The asserts at the head of TransitionFromSafeToVM::trans
AssertSafeToVM(t) ==
  /\ At(t, "assert_SafeToVM")
  /\ IF assert_SafeToVM(cur[t].from, cur[t].to)
       THEN Advance(t) /\ UNCHANGED aborted
       ELSE aborted' = TRUE /\ UNCHANGED cur
  /\ UNCHANGED <<thread_state, pc, guards, ThreadVars, CoordVars, call,
                 has_async_exception>>

\* The asserts of TransitionFromUnsafe::trans
AssertUnsafe(t) ==
  /\ At(t, "assert_Unsafe")
  /\ IF assert_Unsafe(t, cur[t].from, cur[t].to)
       THEN Advance(t) /\ UNCHANGED aborted
       ELSE aborted' = TRUE /\ UNCHANGED cur
  /\ UNCHANGED <<thread_state, pc, guards, ThreadVars, CoordVars, call,
                 has_async_exception>>

\* The assert at the head of TransitionFromVMToJava::trans
AssertVMToJava(t) ==
  /\ At(t, "assert_VMToJava")
  /\ IF assert_VMToJava(t)
       THEN Advance(t) /\ UNCHANGED aborted
       ELSE aborted' = TRUE /\ UNCHANGED cur
  /\ UNCHANGED <<thread_state, pc, guards, ThreadVars, CoordVars, call,
                 has_async_exception>>

\* thread->check_possible_safepoint()
CheckPossibleSafepoint(t) ==
  /\ At(t, "check_possible_safepoint")
  /\ IF check_possible_safepoint(t)
       THEN Advance(t) /\ UNCHANGED aborted
       ELSE aborted' = TRUE /\ UNCHANGED cur
  /\ UNCHANGED <<thread_state, pc, guards, ThreadVars, CoordVars, call,
                 has_async_exception>>

\* thread->frame_anchor()->make_walkable(thread)
MakeWalkable(t) ==
  /\ At(t, "make_walkable")
  /\ walkable' = [walkable EXCEPT ![t] = TRUE]
  /\ Advance(t)
  /\ UNCHANGED <<thread_state, pc, guards, has_last_Java_frame,
                 yellow_zone_disabled, owns_locks, is_compiler,
                 in_flight_mutex, release_count, CoordVars, aborted, call,
                 current, no_safepoint_count, dictionary, has_async_exception, lock_holder>>

\* if (stack_yellow_reserved_zone_disabled()) enable_stack_yellow_reserved_zone()
EnableYellowZone(t) ==
  /\ At(t, "enable_stack_yellow_reserved_zone")
  /\ yellow_zone_disabled' =
       [yellow_zone_disabled EXCEPT ![t] = IF @ THEN FALSE ELSE @]
  /\ Advance(t)
  /\ UNCHANGED <<thread_state, pc, guards, walkable, has_last_Java_frame,
                 owns_locks, is_compiler, in_flight_mutex, release_count,
                 CoordVars, aborted, call,
                 current, no_safepoint_count, dictionary, has_async_exception, lock_holder>>

\* thread->set_thread_state(to)
SetThreadState(t) ==
  /\ At(t, "set_thread_state")
  /\ thread_state' = [thread_state EXCEPT ![t] = cur[t].to]
  /\ Advance(t)
  /\ UNCHANGED <<pc, guards, ThreadVars, CoordVars, aborted, call,
                 has_async_exception>>

\* thread->set_thread_state_fence(to)
SetThreadStateFence(t) ==
  /\ At(t, "set_thread_state_fence")
  /\ thread_state' = [thread_state EXCEPT ![t] = cur[t].to]
  /\ Advance(t)
  /\ UNCHANGED <<pc, guards, ThreadVars, CoordVars, aborted, call,
                 has_async_exception>>

\* The exit check that ends process_if_requested_with_exit_check(thread,
\* check_asyncs): a queued asynchronous exception is delivered to the
\* thread when check_asyncs is set; process_if_requested has no such check.
Delivers(t) ==
  /\ cur[t].steps # << >>
  /\ Head(cur[t].steps) = "process_if_requested_with_exit_check"
  /\ cur[t].async
  /\ has_async_exception[t]

ExitCheck(t) ==
  has_async_exception' =
    IF Delivers(t) THEN [has_async_exception EXCEPT ![t] = FALSE]
                   ELSE has_async_exception

\* SafepointMechanism::process_if_requested(thread) and
\* process_if_requested_with_exit_check(thread, ASYNC): reads the poll and,
\* when it is armed, blocks until the coordinator has cleared the request.
ProcessIfRequested(t) ==
  /\ \/ At(t, "process_if_requested")
     \/ At(t, "process_if_requested_with_exit_check")
  /\ IF poll_armed[t]
       THEN /\ pc' = [pc EXCEPT ![t] = "wait"]
            /\ cur' = [cur EXCEPT ![t].polled = "armed", ![t].waited = TRUE]
            /\ UNCHANGED has_async_exception
       ELSE /\ cur' = [cur EXCEPT ![t].steps = Tail(@),
                                  ![t].polled = IF @ = "none" THEN "clear" ELSE @,
                                  ![t].delivered = Delivers(t)]
            /\ ExitCheck(t)
            /\ UNCHANGED pc
  /\ UNCHANGED <<thread_state, guards, ThreadVars, CoordVars, aborted, call>>

\* The blocked thread is released once its request is cleared.
Resume(t) ==
  /\ ~aborted
  /\ pc[t] = "wait"
  /\ ~poll_armed[t]
  /\ pc' = [pc EXCEPT ![t] = "run"]
  /\ cur' = [cur EXCEPT ![t].steps = IF @ = << >> THEN @ ELSE Tail(@),
                         ![t].delivered = Delivers(t)]
  /\ ExitCheck(t)
  /\ UNCHANGED <<thread_state, guards, ThreadVars, CoordVars, aborted, call>>

\* if (SafepointMechanism::should_process(_thread)) { ... }
ShouldProcess(t) ==
  /\ At(t, "should_process")
  /\ IF poll_armed[t]
       THEN cur' = [cur EXCEPT ![t].steps = Tail(@), ![t].polled = "armed"]
       ELSE cur' = [cur EXCEPT ![t].steps = << >>, ![t].polled = "clear"]
  /\ UNCHANGED <<thread_state, pc, guards, ThreadVars, CoordVars, aborted, call,
                 has_async_exception>>

\* (*_in_flight_mutex_addr)->release_for_safepoint(): the lock, if the
\* thread holds it, is given up.
release_for_safepoint(t) ==
  lock_holder' = IF lock_holder = t THEN NULL ELSE lock_holder

\* Mutant: release_mutex clears the slot but keeps the lock.
ReleaseMutex_KeepLock(t) ==
  /\ At(t, "release_mutex")
  /\ IF in_flight_mutex[t] # NULL
       THEN /\ release_count' = [release_count EXCEPT ![t] = @ + 1]
            /\ in_flight_mutex' = [in_flight_mutex EXCEPT ![t] = NULL]
       ELSE UNCHANGED <<release_count, in_flight_mutex>>
  /\ Advance(t)
  /\ UNCHANGED <<thread_state, pc, guards, walkable, has_last_Java_frame,
                 yellow_zone_disabled, owns_locks, is_compiler,
                 CoordVars, aborted, call,
                 current, no_safepoint_count, dictionary, has_async_exception, lock_holder>>

\* ThreadBlockInVMWithDeadlockCheck::release_mutex
ReleaseMutex(t) ==
  /\ At(t, "release_mutex")
  /\ IF in_flight_mutex[t] # NULL
       THEN /\ release_for_safepoint(t)
            /\ release_count' = [release_count EXCEPT ![t] = @ + 1]
            /\ in_flight_mutex' = [in_flight_mutex EXCEPT ![t] = NULL]
       ELSE UNCHANGED <<release_count, in_flight_mutex, lock_holder>>
  /\ Advance(t)
  /\ UNCHANGED <<thread_state, pc, guards, walkable, has_last_Java_frame,
                 yellow_zone_disabled, owns_locks, is_compiler,
                 CoordVars, aborted, call,
                 current, no_safepoint_count, dictionary, has_async_exception>>

----------------------------------------------------------------------------
\* Scoped regions: construction, the protected body, destruction.

\* The guard object's fields (_state, _thread) and, for the properties, what
\* held when it was constructed: the thread state (pre), the caller's
\* in-flight mutex (mutex), whether a request was pending (req), and how its
\* body was left (how).
NewGuard(kind, state, m, req) ==
  [kind |-> kind,
   pre |-> state,
   _state |-> IF kind \in UnknownKinds THEN state ELSE "none",
   _thread |-> IF kind \in UnknownKinds
                 THEN state # no_thread_state /\ state # JTS_TO(kind)
                 ELSE TRUE,
   mutex |-> m,
   req |-> kind \in DeadlockKinds /\ req,
   how |-> "none"]

\* Thread t has a live deadlock-avoiding guard.
HasDeadlockGuard(t) ==
  \E i \in 1..Len(guards[t]) : guards[t][i].kind \in DeadlockKinds

\* A guard object is constructed on the thread's stack.  The caller of the
\* deadlock-avoiding guard passes the address of its in-flight Mutex* slot;
\* the body that guard protects only waits for the lock, so no second such
\* guard is nested in it.
ConstructGuard(t, kind, m) ==
  /\ ~aborted
  /\ pc[t] = "body"
  /\ LiveGuards(Threads) < MaxGuards
  /\ kind \in DeadlockKinds => ~HasDeadlockGuard(t)
  /\ guards' = [guards EXCEPT ![t] = Append(@, NewGuard(kind, thread_state[t], m, poll_armed[t]))]
  /\ cur' = [cur EXCEPT ![t] = Ctor(t, kind)]
  /\ pc' = [pc EXCEPT ![t] = "run"]
  /\ IF kind \in DeadlockKinds
       THEN /\ in_flight_mutex' = [in_flight_mutex EXCEPT ![t] = m]
            /\ release_count' = [release_count EXCEPT ![t] = 0]
       ELSE /\ m = NULL
            /\ UNCHANGED <<in_flight_mutex, release_count>>
  /\ UNCHANGED <<thread_state, walkable, has_last_Java_frame,
                 yellow_zone_disabled, owns_locks, is_compiler,
                 CoordVars, aborted, call,
                 current, no_safepoint_count, dictionary, has_async_exception, lock_holder>>

\* The callers of the scoped guards: a Java thread constructs the guards
\* that start in its current state, a thread of any other kind only
\* ThreadInVMfromUnknown (JvmtiThreadEventTransition is handed a JavaThread).
Construct(t, kind, m) ==
  /\ kind \in IF is_Java_thread(t) THEN GuardsIn(thread_state[t])
                                    ELSE { "ThreadInVMfromUnknown" }
  /\ ConstructGuard(t, kind, m)

\* A caller that does not know its thread's state constructs either
\* unknown-context guard in whatever state the thread is in.
ConstructUnknown(t, kind) ==
  /\ kind \in UnknownKinds
  /\ ConstructGuard(t, kind, NULL)

\* The protected body is left, normally or by error propagation; either
\* way the innermost guard's destructor runs.
BodyExit(t, how) ==
  /\ ~aborted
  /\ pc[t] = "body"
  /\ guards[t] # << >>
  /\ guards' = [guards EXCEPT ![t][Len(guards[t])].how = how]
  /\ cur' = [cur EXCEPT ![t] = Dtor(Top(t))]
  /\ pc' = [pc EXCEPT ![t] = "run"]
  /\ UNCHANGED <<thread_state, ThreadVars, CoordVars, aborted, call,
                 has_async_exception>>

\* The routine has made all its calls and returns to its caller.
Return(t) ==
  /\ ~aborted
  /\ pc[t] = "run"
  /\ cur[t].steps = << >>
  /\ cur' = [cur EXCEPT ![t] = NoCur]
  /\ \/ /\ cur[t].ret \in {"ctor", "poll"}
        /\ pc' = [pc EXCEPT ![t] = "body"]
        /\ UNCHANGED <<guards, in_flight_mutex, release_count, call>>
     \/ /\ cur[t].ret = "dtor"
        /\ pc' = [pc EXCEPT ![t] = "body"]
        /\ guards' = [guards EXCEPT ![t] = SubSeq(@, 1, Len(@) - 1)]
        /\ IF TopKind(t) \in DeadlockKinds
             THEN /\ in_flight_mutex' = [in_flight_mutex EXCEPT ![t] = NULL]
                  /\ release_count' = [release_count EXCEPT ![t] = 0]
             ELSE UNCHANGED <<in_flight_mutex, release_count>>
        /\ UNCHANGED call
     \/ /\ cur[t].ret = "tcall"
        /\ pc' = [pc EXCEPT ![t] = IF call.stage = 1 THEN "tcall" ELSE "tdone"]
        /\ UNCHANGED <<guards, in_flight_mutex, release_count, call>>
  /\ UNCHANGED <<thread_state, walkable, has_last_Java_frame,
                 yellow_zone_disabled, owns_locks, is_compiler,
                 CoordVars, aborted,
                 current, no_safepoint_count, dictionary, has_async_exception, lock_holder>>

\* Managed code reaches a safepoint poll while a request is pending (the
\* body of a leaf routine is runtime code and has no such poll).
JavaPoll(t) ==
  /\ ~aborted
  /\ pc[t] = "body"
  /\ thread_state[t] = _thread_in_Java
  /\ no_safepoint_count[t] = 0
  /\ poll_armed[t]
  /\ pc' = [pc EXCEPT ![t] = "wait"]
  /\ cur' = [cur EXCEPT ![t] =
        [Routine(_thread_in_Java, _thread_in_Java, FALSE, << >>, "poll")
           EXCEPT !.polled = "armed", !.waited = TRUE]]
  /\ UNCHANGED <<thread_state, guards, ThreadVars, CoordVars, aborted, call,
                 has_async_exception>>

\* Runtime code entered from managed code disables the yellow/reserved
\* zone while it handles a stack overflow.
DisableYellowZone(t) ==
  /\ ~aborted
  /\ pc[t] = "body"
  /\ thread_state[t] = _thread_in_vm
  /\ guards[t] # << >>
  /\ Top(t).kind \in {"ThreadInVMfromJava", "ThreadInVMfromJavaNoAsyncException"}
  /\ ~yellow_zone_disabled[t]
  /\ yellow_zone_disabled' = [yellow_zone_disabled EXCEPT ![t] = TRUE]
  /\ UNCHANGED <<thread_state, pc, cur, guards, walkable, has_last_Java_frame,
                 owns_locks, is_compiler, in_flight_mutex, release_count,
                 CoordVars, aborted, call,
                 current, no_safepoint_count, dictionary, has_async_exception,
          lock_holder>>

----------------------------------------------------------------------------
\* The coordinator (SafepointMechanism's other side): it posts a request to
\* every thread, then counts as stopped each thread it observes in a safe
\* state or blocked on the request, operates, and clears the request.

Stopped(t) == is_safe(thread_state[t]) \/ pc[t] = "wait"

SafepointBegin ==
  /\ ~aborted
  /\ phase = "idle"
  /\ phase' = "syncing"
  /\ poll_armed' = [t \in Threads |-> is_Java_thread(t)]
  /\ UNCHANGED <<thread_state, pc, cur, guards, ThreadVars, counted, aborted, call,
                 has_async_exception>>

Observe(t) ==
  /\ ~aborted
  /\ phase = "syncing"
  /\ is_Java_thread(t)
  /\ t \notin counted
  /\ Stopped(t)
  /\ counted' = counted \cup {t}
  /\ phase' = IF counted' = JavaThreads THEN "at_safepoint" ELSE phase
  /\ UNCHANGED <<thread_state, pc, cur, guards, ThreadVars, poll_armed, aborted, call,
                 has_async_exception>>

SafepointEnd ==
  /\ ~aborted
  /\ phase = "at_safepoint"
  /\ phase' = "idle"
  /\ counted' = {}
  /\ poll_armed' = [t \in Threads |-> FALSE]
  /\ UNCHANGED <<thread_state, pc, cur, guards, ThreadVars, aborted, call,
                 has_async_exception>>

----------------------------------------------------------------------------
TransitionStep(t) ==
  \/ AssertSafeToVM(t)
  \/ AssertUnsafe(t)
  \/ AssertVMToJava(t)
  \/ CheckPossibleSafepoint(t)
  \/ MakeWalkable(t)
  \/ EnableYellowZone(t)
  \/ SetThreadState(t)
  \/ SetThreadStateFence(t)
  \/ ProcessIfRequested(t)
  \/ Resume(t)
  \/ Return(t)

GuardStep(t) ==
  \/ ShouldProcess(t)
  \/ ReleaseMutex(t)

Coordinator ==
  \/ SafepointBegin
  \/ \E t \in Threads : Observe(t)
  \/ SafepointEnd

Next ==
  \/ \E t \in Threads :
       \/ \E kind \in TransitionKinds \cup UnknownKinds \cup DeadlockKinds,
             m \in {NULL, "L"} : Construct(t, kind, m)
       \/ \E how \in {"normal", "error"} : BodyExit(t, how)
       \/ JavaPoll(t)
       \/ DisableYellowZone(t)
       \/ TransitionStep(t)
       \/ GuardStep(t)
  \/ Coordinator

Spec == Init /\ [][Next]_vars

----------------------------------------------------------------------------
\* Asynchronous exceptions: another thread queues one for thread "t1", at
\* any time, while "t1" runs code under the scoped guards.

\* An asynchronous exception is queued for thread t.
SendAsyncException(t) ==
  /\ ~aborted
  /\ is_Java_thread(t)
  /\ pc[t] # "off"
  /\ ~has_async_exception[t]
  /\ has_async_exception' = [has_async_exception EXCEPT ![t] = TRUE]
  /\ UNCHANGED <<thread_state, pc, cur, guards, ThreadVars, CoordVars,
                 aborted, call>>

InitA ==
  /\ current = [t \in Threads |-> "JavaThread"]
  /\ \E s \in {_thread_in_Java, _thread_in_native} :
       thread_state = [t \in Threads |-> IF t = "t1" THEN s ELSE _thread_in_native]
  /\ pc = [t \in Threads |-> IF t = "t1" THEN "body" ELSE "off"]
  /\ cur = [t \in Threads |-> NoCur]
  /\ guards = [t \in Threads |-> << >>]
  /\ walkable = [t \in Threads |-> FALSE]
  /\ has_last_Java_frame = [t \in Threads |-> thread_state[t] = _thread_in_Java]
  /\ yellow_zone_disabled = [t \in Threads |-> FALSE]
  /\ owns_locks = [t \in Threads |-> FALSE]
  /\ is_compiler = [t \in Threads |-> FALSE]
  /\ poll_armed = [t \in Threads |-> FALSE]
  /\ in_flight_mutex = [t \in Threads |-> NULL]
  /\ release_count = [t \in Threads |-> 0]
  /\ phase = "idle"
  /\ counted = {}
  /\ aborted = FALSE
  /\ call = [actual |-> "none", from |-> "none", to |-> "none",
             async |-> FALSE, stage |-> 0]
  /\ has_async_exception = [t \in Threads |-> FALSE]
  /\ lock_holder = NULL
  /\ dictionary = NoDictionary
  /\ no_safepoint_count = [t \in Threads |-> 0]

NextA ==
  \/ Next
  \/ \E t \in Threads : SendAsyncException(t)

SpecA == InitA /\ [][NextA]_vars

\* Every step of thread t under the scoped guards.
Mutator(t) ==
  \/ \E kind \in TransitionKinds \cup UnknownKinds \cup DeadlockKinds,
        m \in {NULL, "L"} : Construct(t, kind, m)
  \/ \E how \in {"normal", "error"} : BodyExit(t, how)
  \/ JavaPoll(t)
  \/ DisableYellowZone(t)
  \/ TransitionStep(t)
  \/ GuardStep(t)

\* Fair scheduling: a thread that can run does run, a thread whose request
\* is cleared is woken, the coordinator runs, and it clears every request
\* it posts.
SpecF ==
  /\ SpecA
  /\ \A t \in Threads : WF_vars(Mutator(t))
  /\ \A t \in Threads : SF_vars(Resume(t))
  /\ WF_vars(Coordinator)
  /\ []<>(phase = "idle")

----------------------------------------------------------------------------
\* Lock L taken through the deadlock-avoiding guard, as the slow path of
\* Mutex::lock does: the thread, in Runtime, constructs the guard with L in
\* flight, waits for L in the guarded body, and leaves the body holding L.
\* The coordinator needs L for the operation it runs once every thread has
\* stopped.

LockContended(t) ==
  /\ lock_holder # t
  /\ guards[t] = << >>
  /\ Construct(t, "ThreadBlockInVMWithDeadlockCheck", "L")

\* The guarded body: the thread acquires L once L is free.
PlatformLock(t) ==
  /\ ~aborted
  /\ pc[t] = "body"
  /\ TopKind(t) \in DeadlockKinds
  /\ lock_holder = NULL
  /\ lock_holder' = t
  /\ UNCHANGED <<thread_state, pc, cur, guards, walkable, has_last_Java_frame,
                 yellow_zone_disabled, owns_locks, is_compiler,
                 in_flight_mutex, release_count, current, no_safepoint_count, dictionary,
                 CoordVars, aborted, call, has_async_exception>>

\* The guarded body ends when the thread has the lock.
LockAcquired(t) ==
  /\ lock_holder = t
  /\ BodyExit(t, "normal")

\* The thread, in Runtime and outside the guard, gives the lock up.
Unlock(t) ==
  /\ ~aborted
  /\ pc[t] = "body"
  /\ guards[t] = << >>
  /\ lock_holder = t
  /\ lock_holder' = NULL
  /\ UNCHANGED <<thread_state, pc, cur, guards, walkable, has_last_Java_frame,
                 yellow_zone_disabled, owns_locks, is_compiler,
                 in_flight_mutex, release_count, current, no_safepoint_count, dictionary,
                 CoordVars, aborted, call, has_async_exception>>

\* With every thread stopped the coordinator takes L for its operation.
VMOperationBegin ==
  /\ ~aborted
  /\ phase = "at_safepoint"
  /\ lock_holder = NULL
  /\ lock_holder' = "VMThread"
  /\ UNCHANGED <<thread_state, pc, cur, guards, walkable, has_last_Java_frame,
                 yellow_zone_disabled, owns_locks, is_compiler,
                 in_flight_mutex, release_count, current, no_safepoint_count, dictionary,
                 CoordVars, aborted, call, has_async_exception>>

\* The operation is complete: the coordinator gives L up and clears the
\* request.
VMOperationEnd ==
  /\ ~aborted
  /\ phase = "at_safepoint"
  /\ lock_holder = "VMThread"
  /\ lock_holder' = NULL
  /\ phase' = "idle"
  /\ counted' = {}
  /\ poll_armed' = [t \in Threads |-> FALSE]
  /\ UNCHANGED <<thread_state, pc, cur, guards, walkable, has_last_Java_frame,
                 yellow_zone_disabled, owns_locks, is_compiler,
                 in_flight_mutex, release_count, current, no_safepoint_count, dictionary,
                 aborted, call, has_async_exception>>

InitL ==
  /\ current = [t \in Threads |-> "JavaThread"]
  /\ thread_state = [t \in Threads |-> _thread_in_vm]
  /\ pc = [t \in Threads |-> "body"]
  /\ cur = [t \in Threads |-> NoCur]
  /\ guards = [t \in Threads |-> << >>]
  /\ walkable = [t \in Threads |-> FALSE]
  /\ has_last_Java_frame = [t \in Threads |-> FALSE]
  /\ yellow_zone_disabled = [t \in Threads |-> FALSE]
  /\ owns_locks = [t \in Threads |-> FALSE]
  /\ is_compiler = [t \in Threads |-> FALSE]
  /\ poll_armed = [t \in Threads |-> FALSE]
  /\ in_flight_mutex = [t \in Threads |-> NULL]
  /\ release_count = [t \in Threads |-> 0]
  /\ phase = "idle"
  /\ counted = {}
  /\ aborted = FALSE
  /\ call = [actual |-> "none", from |-> "none", to |-> "none",
             async |-> FALSE, stage |-> 0]
  /\ has_async_exception = [t \in Threads |-> FALSE]
  /\ lock_holder = NULL
  /\ dictionary = NoDictionary
  /\ no_safepoint_count = [t \in Threads |-> 0]

MutatorL(t) ==
  \/ LockContended(t)
  \/ PlatformLock(t)
  \/ LockAcquired(t)
  \/ Unlock(t)
  \/ SetThreadState(t)
  \/ SetThreadStateFence(t)
  \/ ShouldProcess(t)
  \/ ReleaseMutex(t)
  \/ ProcessIfRequested(t)
  \/ Resume(t)
  \/ Return(t)

CoordinatorL ==
  \/ SafepointBegin
  \/ \E t \in Threads : Observe(t)
  \/ VMOperationBegin
  \/ VMOperationEnd

NextL ==
  \/ \E t \in Threads : MutatorL(t)
  \/ CoordinatorL

\* Fair scheduling: a thread that can run does run, a thread whose request
\* is cleared is woken, and the coordinator runs.
SpecL ==
  /\ InitL /\ [][NextL]_vars
  /\ \A t \in Threads : WF_vars(MutatorL(t))
  /\ \A t \in Threads : SF_vars(Resume(t))
  /\ WF_vars(CoordinatorL)

----------------------------------------------------------------------------
\* Direct calls of ThreadStateTransitionBase::transition: one thread, in any
\* state, calls transition(thread, from, to) and then its inverse
\* transition(thread, to, from), for every from and to of the table.

Caller == "t1"

InitT ==
  /\ \E s \in FromStates, frame \in BOOLEAN :
       /\ thread_state = [t \in Threads |->
                            IF t = Caller THEN s ELSE _thread_in_native]
       /\ \E from \in FromStates, to \in States, async \in BOOLEAN :
            call = [actual |-> s, from |-> from, to |-> to,
                    async |-> async, stage |-> 0, pre |-> "none"]
       /\ has_last_Java_frame = [t \in Threads |->
            t = Caller /\ (frame \/ s = _thread_in_Java)]
       /\ walkable = [t \in Threads |->
            t = Caller /\ frame /\ s # _thread_in_Java]
  /\ pc = [t \in Threads |-> IF t = Caller THEN "tcall" ELSE "off"]
  /\ cur = [t \in Threads |-> NoCur]
  /\ guards = [t \in Threads |-> << >>]
  /\ \E y \in BOOLEAN :
       yellow_zone_disabled = [t \in Threads |-> t = Caller /\ y]
  /\ \E l \in BOOLEAN : owns_locks = [t \in Threads |-> t = Caller /\ l]
  /\ \E c \in BOOLEAN : is_compiler = [t \in Threads |-> t = Caller /\ c]
  /\ poll_armed = [t \in Threads |-> FALSE]
  /\ in_flight_mutex = [t \in Threads |-> NULL]
  /\ release_count = [t \in Threads |-> 0]
  /\ phase = "idle"
  /\ counted = {}
  /\ aborted = FALSE
  /\ current = [t \in Threads |-> "JavaThread"]
  /\ has_async_exception = [t \in Threads |-> FALSE]
  /\ lock_holder = NULL
  /\ dictionary = NoDictionary
  /\ \E n \in {0, 1} :
       no_safepoint_count = [t \in Threads |-> IF t = Caller THEN n ELSE 0]

\* For the properties: what a call of transition() found.
Snapshot(t) ==
  [thread_state |-> thread_state[t], walkable |-> walkable[t],
   yellow_zone_disabled |-> yellow_zone_disabled[t],
   in_flight_mutex |-> in_flight_mutex[t], lock_holder |-> lock_holder]

TCall(t) ==
  /\ ~aborted
  /\ pc[t] = "tcall"
  /\ LET from == IF call.stage = 0 THEN call.from ELSE call.to
         to   == IF call.stage = 0 THEN call.to ELSE call.from
     IN  cur' = [cur EXCEPT ![t] =
                   Routine(from, to, call.async, transition(from, to), "tcall")]
  /\ pc' = [pc EXCEPT ![t] = "run"]
  /\ call' = [call EXCEPT !.stage = @ + 1, !.pre = Snapshot(t)]
  /\ UNCHANGED <<thread_state, guards, ThreadVars, CoordVars, aborted,
                 has_async_exception>>

NextT ==
  \/ TCall(Caller)
  \/ Fatal(Caller)
  \/ TransitionStep(Caller)
  \/ Coordinator

SpecT == InitT /\ [][NextT]_vars

----------------------------------------------------------------------------
\* Properties.

\* The routine thread t is executing has made all its calls.
Done(t) == pc[t] = "run" /\ cur[t].steps = << >>

CtorDone(t) == Done(t) /\ cur[t].ret = "ctor"

DtorDone(t) == Done(t) /\ cur[t].ret = "dtor"

\* Thread t is executing, or blocked in, call op of its routine.
InCall(t, op) ==
  /\ pc[t] \in {"run", "wait"}
  /\ cur[t].steps # << >>
  /\ Head(cur[t].steps) = op

\* Thread t is inside a transition into Managed.
IntoJava(t) ==
  cur[t].to = _thread_in_Java /\ cur[t].ret \in {"ctor", "dtor", "tcall"}

\* Thread t runs VM code: it is in Runtime and not inside a transition.
RunsVMCode(t) == thread_state[t] = _thread_in_vm /\ (pc[t] = "body" \/ Done(t))

\* C1: while a synchronization operation is in progress, a thread its
\* coordinator counted as stopped does not run Runtime code: a thread that
\* enters Runtime from NativeCode or Blocked has read the poll after
\* publishing Runtime before its transition returns, and so stays blocked
\* inside the transition until the request is cleared.
C1_NoReturnWhileCounted ==
  \A t \in Threads :
    /\ (t \in counted /\ phase \in {"syncing", "at_safepoint"})
         => ~RunsVMCode(t)
    /\ (Done(t) /\ is_safe(cur[t].from) /\ cur[t].to = _thread_in_vm)
         => /\ thread_state[t] = _thread_in_vm
            /\ cur[t].polled # "none"

\* A thread that was counted while parked in Blocked is blocked in the exit
\* transition of ThreadBlockInVM while the operation runs.
C1_Witness ==
  \E t \in Threads :
    /\ phase = "at_safepoint" /\ t \in counted
    /\ pc[t] = "wait"
    /\ TopKind(t) = "ThreadBlockInVM"
    /\ cur[t].from = _thread_blocked /\ cur[t].to = _thread_in_vm
    /\ thread_state[t] = _thread_in_vm

\* C2 as stated: when a transition into Managed checks for a pending
\* request, the Managed state has already been published.
C2_CheckAfterPublish ==
  \A t \in Threads :
    (IntoJava(t) /\ InCall(t, "process_if_requested_with_exit_check"))
      => thread_state[t] = _thread_in_Java

\* C2 amended: a transition into Managed checks for a pending request while
\* the thread is still published as Runtime; Managed is published only after
\* the check, as the last step before the transition returns.
C2_CheckBeforePublish ==
  \A t \in Threads :
    IntoJava(t) =>
      /\ InCall(t, "process_if_requested_with_exit_check")
           => thread_state[t] = _thread_in_vm
      /\ thread_state[t] = _thread_in_Java
           => cur[t].polled # "none" /\ Done(t)
      /\ Done(t) => thread_state[t] = _thread_in_Java

\* A thread blocked in the check of a transition into Managed, still
\* published as Runtime.
C2_Witness ==
  \E t \in Threads :
    /\ IntoJava(t)
    /\ pc[t] = "wait"
    /\ InCall(t, "process_if_requested_with_exit_check")
    /\ thread_state[t] = _thread_in_vm

\* C3: a thread re-entering Managed that finds a request pending blocks, is
\* released only once the request is cleared, and only then stores Managed;
\* one that finds no request pending goes on without blocking; the
\* transition ends with the thread in Managed.
C3_BlocksUntilCleared ==
  [][\A t \in Threads :
       IntoJava(t) =>
         /\ (InCall(t, "process_if_requested_with_exit_check")
               /\ pc[t] = "run" /\ poll_armed[t] /\ cur'[t] # cur[t])
              => pc'[t] = "wait" /\ thread_state'[t] = thread_state[t]
         /\ (pc[t] = "wait" /\ pc'[t] # "wait") => ~poll_armed[t]
         /\ (InCall(t, "process_if_requested_with_exit_check")
               /\ pc[t] = "run" /\ ~poll_armed[t] /\ cur'[t] # cur[t])
              => pc'[t] = "run" /\ ~cur'[t].waited
         /\ (thread_state[t] # _thread_in_Java
               /\ thread_state'[t] = _thread_in_Java)
              => /\ pc[t] = "run"
                 /\ cur[t].polled # "none"
                 /\ cur[t].polled = "armed" <=> cur[t].waited
                 /\ Done(t)'
         /\ Done(t) => thread_state[t] = _thread_in_Java
    ]_vars

\* A thread that blocked on a pending request has completed its transition
\* into Managed.
C3_Witness ==
  \E t \in Threads :
    /\ IntoJava(t) /\ Done(t)
    /\ cur[t].waited
    /\ thread_state[t] = _thread_in_Java

\* The legal (from, to) pairs of the legality table.
LegalPair(from, to) ==
  <<from, to>> \in
    { <<_thread_in_Java, _thread_in_vm>>, <<_thread_in_Java, _thread_in_native>>,
      <<_thread_in_vm, _thread_in_Java>>, <<_thread_in_vm, _thread_in_native>>,
      <<_thread_in_vm, _thread_blocked>>,
      <<_thread_in_native, _thread_in_Java>>, <<_thread_in_native, _thread_in_vm>>,
      <<_thread_blocked, _thread_in_vm>>,
      <<_thread_new, _thread_in_vm>> }

\* C4 as stated: a thread in state from that calls transition(from, to) for
\* a pair the legality table does not mark legal never has the call accepted
\* and performed (it ends in a fatal error instead).
C4_IllegalPairRejected ==
  (call.actual = call.from /\ ~LegalPair(call.from, call.to))
    => ~(call.stage = 1 /\ Done(Caller))

\* C5 as stated: a thread in state from, owning no VM lock and in no
\* no-safepoint scope, that calls
\* transition(from, to) for a legal pair and then transition(to, from)
\* completes both without a fault and ends in state from.
C5_RoundTrip ==
  (call.actual = call.from /\ LegalPair(call.from, call.to)
     /\ ~owns_locks[Caller] /\ no_safepoint_count[Caller] = 0)
    => /\ ~aborted
       /\ pc[Caller] = "tdone" => thread_state[Caller] = call.from

\* C6: when the destructor of a scoped-transition guard has run, after a
\* normal exit of the body or after error propagation, the thread is back
\* in the state it was in just before the guard was constructed and not in
\* the guard's target state; no destructor ends in a fault.
C6_GuardRestoresState ==
  /\ ~aborted
  /\ \A t \in Threads :
       (DtorDone(t) /\ TopKind(t) \in TransitionKinds \cup UnknownKinds)
         => /\ Top(t).how \in {"normal", "error"}
            /\ thread_state[t] = Top(t).pre
            /\ TopKind(t) \in TransitionKinds
                 => thread_state[t] # JTS_TO(TopKind(t))

\* The destructor of a guard has run after its body was left by error
\* propagation.
C6_Witness ==
  \E t \in Threads :
    /\ DtorDone(t)
    /\ TopKind(t) \in TransitionKinds
    /\ Top(t).how = "error"
    /\ thread_state[t] = Top(t).pre

\* C7: while the body protected by a named guard runs, the guard having been
\* constructed in its entry state, the thread is in the guard's target state.
C7_BodyInTargetState ==
  \A t \in Threads :
    (pc[t] = "body" /\ TopKind(t) \in TransitionKinds
       /\ Top(t).pre = JTS_FROM(TopKind(t)))
      => thread_state[t] = JTS_TO(TopKind(t))

\* The body of ThreadBlockInVM runs in Blocked.
C7_Witness ==
  \E t \in Threads :
    /\ pc[t] = "body"
    /\ TopKind(t) = "ThreadBlockInVM"
    /\ Top(t).pre = _thread_in_vm
    /\ thread_state[t] = _thread_blocked

\* C8: a thread that leaves Managed by transition(Managed, Runtime) or
\* transition(Managed, NativeCode) is never observable in a state other
\* than Managed with a stack that is not walkable.
C8_WalkableBeforePublish ==
  (call.actual = _thread_in_Java /\ call.from = _thread_in_Java
     /\ thread_state[Caller] # _thread_in_Java)
    => walkable[Caller]

\* The coordinator has counted as stopped a thread that went from Managed to
\* NativeCode; its stack is walkable.
C8_Witness ==
  /\ call.actual = _thread_in_Java /\ call.from = _thread_in_Java
  /\ call.to = _thread_in_native /\ call.stage = 1
  /\ thread_state[Caller] = _thread_in_native
  /\ Caller \in counted
  /\ walkable[Caller]

\* C9 as stated: a thread that is in Managed, and not inside a transition,
\* has is_walkable() false, also after transition(Managed, to) followed by
\* the return transition(to, Managed); right after transition(Managed, to)
\* completes it is true.
C9_ManagedNotWalkable ==
  (call.actual = _thread_in_Java /\ call.from = _thread_in_Java)
    => /\ (thread_state[Caller] = _thread_in_Java
            /\ pc[Caller] \in {"tcall", "tdone"}) => ~walkable[Caller]
       /\ (call.stage = 1 /\ Done(Caller)) => walkable[Caller]

\* C9 amended: right after an exit-from-Managed transition completes
\* is_walkable() is true; the transition back into Managed leaves it
\* unchanged, so on return to Managed is_walkable() is still true.
C9_WalkableKept ==
  (call.actual = _thread_in_Java /\ call.from = _thread_in_Java)
    => /\ (call.stage = 1 /\ Done(Caller))
            => walkable[Caller] /\ thread_state[Caller] = call.to
       /\ pc[Caller] = "tdone"
            => walkable[Caller] /\ thread_state[Caller] = _thread_in_Java

\* A thread is back in Managed after Managed -> Runtime -> Managed and its
\* stack is still walkable.
C9_Witness ==
  /\ call.actual = _thread_in_Java /\ call.from = _thread_in_Java
  /\ call.to = _thread_in_vm
  /\ pc[Caller] = "tdone"
  /\ thread_state[Caller] = _thread_in_Java
  /\ walkable[Caller]

\* C10 as stated: when the constructor of the deadlock-avoiding guard has
\* completed, for a thread that held in-flight lock L and had a request
\* pending at construction, L's slot is NULL and release_for_safepoint()
\* has been invoked exactly once.
C10_ReleasedByConstructor ==
  \A t \in Threads :
    (CtorDone(t) /\ TopKind(t) \in DeadlockKinds
       /\ Top(t).mutex # NULL /\ Top(t).req)
      => in_flight_mutex[t] = NULL /\ release_count[t] = 1

\* C10 amended: the constructor leaves L's slot unchanged and releases
\* nothing; when the destructor has completed, having found a request
\* pending at should_process, L's slot is NULL and release_for_safepoint()
\* has been invoked exactly once.
C10_ReleasedByDestructor ==
  \A t \in Threads :
    (TopKind(t) \in DeadlockKinds /\ Top(t).mutex # NULL)
      => /\ CtorDone(t)
              => in_flight_mutex[t] = Top(t).mutex /\ release_count[t] = 0
         /\ (DtorDone(t) /\ cur[t].polled = "armed")
              => in_flight_mutex[t] = NULL /\ release_count[t] = 1

\* The destructor of the deadlock-avoiding guard has completed after it
\* found a request pending, for a guard constructed under a pending request.
C10_Witness ==
  \E t \in Threads :
    /\ TopKind(t) \in DeadlockKinds
    /\ Top(t).mutex # NULL /\ Top(t).req
    /\ DtorDone(t) /\ cur[t].polled = "armed" /\ cur[t].waited
    /\ in_flight_mutex[t] = NULL /\ release_count[t] = 1

\* C11: over the lifetime of one deadlock-avoiding guard that was given an
\* in-flight lock, release_for_safepoint() is invoked on it at most once;
\* when the destructor has run the caller's slot is NULL exactly if the
\* guard released the lock; and if should_process found no request pending
\* the lock is not released and the slot still holds it.
C11_ReleaseAtMostOnce ==
  \A t \in Threads :
    (TopKind(t) \in DeadlockKinds /\ Top(t).mutex # NULL)
      => /\ release_count[t] <= 1
         /\ DtorDone(t)
              => (in_flight_mutex[t] = NULL <=> release_count[t] = 1)
         /\ (DtorDone(t) /\ cur[t].polled = "clear")
              => release_count[t] = 0 /\ in_flight_mutex[t] = Top(t).mutex

\* The destructor has completed for a guard that was constructed with no
\* request pending: a request posted during its body made it release the
\* lock, once, and the slot is NULL.
C11_Witness ==
  \E t \in Threads :
    /\ TopKind(t) \in DeadlockKinds
    /\ Top(t).mutex # NULL /\ ~Top(t).req
    /\ DtorDone(t) /\ cur[t].polled = "armed"
    /\ release_count[t] = 1 /\ in_flight_mutex[t] = NULL

\* C12: a thread that uses the deadlock-avoiding guard with a non-NULL
\* in-flight lock never waits for the coordinator holding that lock: while
\* it is blocked in the process_if_requested call of the guard's destructor
\* the lock has been released and the caller's slot is NULL.
C12_NoWaitHoldingLock ==
  \A t \in Threads :
    (TopKind(t) \in DeadlockKinds /\ Top(t).mutex # NULL
       /\ cur[t].ret = "dtor" /\ pc[t] = "wait")
      => /\ InCall(t, "process_if_requested")
         /\ in_flight_mutex[t] = NULL
         /\ release_count[t] = 1

\* The coordinator operates while a thread that was given lock L is blocked
\* in the guard's wait step, L released.
C12_Witness ==
  \E t \in Threads :
    /\ TopKind(t) \in DeadlockKinds /\ Top(t).mutex # NULL
    /\ cur[t].ret = "dtor" /\ pc[t] = "wait"
    /\ phase = "at_safepoint"
    /\ in_flight_mutex[t] = NULL

C16_UnknownIsNoOp ==
  \A t \in Threads :
    /\ (TopKind(t) = "ThreadInVMfromUnknown"
          /\ (Top(t).pre = _thread_in_vm \/ ~is_Java_thread(t))
          /\ cur[t].ret \in {"ctor", "dtor"})
         => /\ pc[t] = "run" /\ cur[t].steps = << >>
            /\ cur[t].polled = "none" /\ ~cur[t].waited
            /\ thread_state[t] = Top(t).pre
            /\ (Len(guards[t]) > 1
                  /\ guards[t][Len(guards[t]) - 1].kind \in TransitionKinds)
                 => thread_state[t] = JTS_TO(guards[t][Len(guards[t]) - 1].kind)
    /\ (TopKind(t) \in TransitionKinds /\ DtorDone(t))
         => thread_state[t] = Top(t).pre

\* The destructor of a ThreadInVMfromUnknown nested in the region of
\* ThreadInVMfromJava has run while a request was pending: the thread is
\* still in Runtime and has read no poll.
C16_Witness ==
  \E t \in Threads :
    /\ Len(guards[t]) = 2
    /\ guards[t][1].kind = "ThreadInVMfromJava"
    /\ TopKind(t) = "ThreadInVMfromUnknown" /\ DtorDone(t)
    /\ poll_armed[t]
    /\ thread_state[t] = _thread_in_vm

PollCalls == { "process_if_requested", "process_if_requested_with_exit_check" }

\* C18: a transition into NativeCode, a transition into Blocked, and the
\* transitions Managed -> Runtime and New -> Runtime never call
\* process_if_requested: they read no poll and never block, also while a
\* request is pending; a thread inside a transition blocks only in its
\* call of process_if_requested.
C18_NoPollLeavingUnsafe ==
  /\ (cur[Caller].ret = "tcall"
        /\ \/ cur[Caller].to \in {_thread_in_native, _thread_blocked}
           \/ /\ cur[Caller].from \in {_thread_in_Java, _thread_new}
              /\ cur[Caller].to = _thread_in_vm)
       => /\ \A i \in 1..Len(cur[Caller].steps) :
               cur[Caller].steps[i] \notin PollCalls
          /\ pc[Caller] = "run"
          /\ cur[Caller].polled = "none" /\ ~cur[Caller].waited
  /\ pc[Caller] = "wait"
       => /\ cur[Caller].steps # << >>
          /\ Head(cur[Caller].steps) \in PollCalls

\* A thread has completed transition(New, Runtime) while a request was
\* pending for it, without reading the poll.
C18_Witness ==
  /\ call.actual = _thread_new /\ call.from = _thread_new
  /\ call.to = _thread_in_vm /\ call.stage = 1
  /\ Done(Caller)
  /\ poll_armed[Caller] /\ phase = "syncing"
  /\ thread_state[Caller] = _thread_in_vm
  /\ cur[Caller].polled = "none"

\* C19 as stated: every transition verifies the thread's actual state: a
\* call transition(thread, from, to), for a legal pair, made while the
\* thread's state differs from `from` is never carried out (it ends in a
\* fatal error instead).
C19_ActualStateVerified ==
  (call.actual # call.from /\ LegalPair(call.from, call.to))
    => ~(call.stage = 1 /\ Done(Caller))

\* Thread t is inside a transition into Runtime from NativeCode or Blocked.
IntoVMFromSafe(t) ==
  /\ is_safe(cur[t].from) /\ cur[t].to = _thread_in_vm
  /\ cur[t].ret \in {"ctor", "dtor"}

\* C20: a transition into Runtime from NativeCode or Blocked first
\* publishes Runtime, with the fenced store, then calls
\* process_if_requested, which may block, and returns only after that call
\* has returned: the poll is never read while the thread is still published
\* as NativeCode or Blocked.
C20_StoreFenceThenPoll ==
  \A t \in Threads :
    IntoVMFromSafe(t) =>
      /\ thread_state[t] # _thread_in_vm
           => /\ cur[t].polled = "none" /\ pc[t] = "run"
              /\ \E i \in 1..Len(cur[t].steps) :
                   cur[t].steps[i] = "set_thread_state_fence"
              /\ \A i \in 1..Len(cur[t].steps) :
                   cur[t].steps[i] # "set_thread_state"
      /\ (InCall(t, "process_if_requested") \/ InCall(t, "should_process"))
           => thread_state[t] = _thread_in_vm
      /\ pc[t] = "wait" => InCall(t, "process_if_requested")
      /\ Done(t) => cur[t].polled # "none" /\ thread_state[t] = _thread_in_vm

\* A thread entering Runtime from NativeCode is blocked in
\* process_if_requested, published as Runtime, while the coordinator is
\* still collecting threads and has not counted it.
C20_Witness ==
  \E t \in Threads :
    /\ TopKind(t) = "ThreadInVMfromNative" /\ cur[t].ret = "ctor"
    /\ IntoVMFromSafe(t)
    /\ pc[t] = "wait"
    /\ thread_state[t] = _thread_in_vm
    /\ phase = "syncing" /\ t \notin counted

\* Thread t, inside the deadlock-avoiding guard, holds lock L while a
\* request is pending for it.
HoldsLockUnderRequest(t) ==
  /\ TopKind(t) \in DeadlockKinds
  /\ lock_holder = t
  /\ poll_armed[t]

\* C13: with a coordinator that needs lock L for its operation, a thread
\* that holds L inside the deadlock-avoiding guard while a request is
\* pending never deadlocks with it: under fair scheduling the coordinator
\* completes its operation and the thread leaves the guard in Runtime.
C13_NoDeadlockOnLock ==
  \A t \in Threads :
    /\ HoldsLockUnderRequest(t) ~> (phase = "idle")
    /\ HoldsLockUnderRequest(t)
         ~> (guards[t] = << >> /\ pc[t] = "body"
               /\ thread_state[t] = _thread_in_vm)

\* The coordinator runs its operation holding L while a thread that had L
\* in flight is blocked in the guard's wait step.
C13_Witness ==
  \E t \in Threads :
    /\ TopKind(t) \in DeadlockKinds /\ Top(t).mutex = "L"
    /\ cur[t].ret = "dtor" /\ pc[t] = "wait"
    /\ release_count[t] = 1
    /\ phase = "at_safepoint" /\ lock_holder = "VMThread"

\* Thread t has started a transition, in the constructor or the destructor
\* of a guard, and not completed it.
InTransition(t) ==
  /\ pc[t] \in {"run", "wait"}
  /\ cur[t].steps # << >>
  /\ cur[t].ret \in {"ctor", "dtor"}

\* C17: every transition, once started, runs to completion: with a
\* coordinator that clears every request it posts and fair scheduling, no
\* thread stays blocked in process_if_requested (the wait step of the
\* deadlock-avoiding guard included) for ever, and the transition ends with
\* the thread in its target state.
C17_TransitionCompletes ==
  \A t \in Threads :
    /\ InTransition(t) ~> Done(t)
    /\ [](  (Done(t) /\ cur[t].ret \in {"ctor", "dtor"})
          => thread_state[t] = cur[t].to)

\* A thread that blocked on a pending request in the constructor of
\* ThreadInVMfromNative has completed the transition after the request was
\* cleared.
C17_Witness ==
  \E t \in Threads :
    /\ TopKind(t) = "ThreadInVMfromNative" /\ CtorDone(t)
    /\ cur[t].waited
    /\ thread_state[t] = _thread_in_vm
    /\ phase = "idle"

----------------------------------------------------------------------------
\* The unknown-context guards alone: one Java thread, in any of the four
\* states, constructs ThreadInVMfromUnknown or JvmtiThreadEventTransition
\* and later leaves the guarded region.
InitU ==
  /\ current = [t \in Threads |-> "JavaThread"]
  /\ \E s \in States, frame \in BOOLEAN :
       /\ thread_state = [t \in Threads |->
                            IF t = Caller THEN s ELSE _thread_in_native]
       /\ has_last_Java_frame = [t \in Threads |->
            t = Caller /\ (frame \/ s = _thread_in_Java)]
       /\ walkable = [t \in Threads |->
            t = Caller /\ frame /\ s # _thread_in_Java]
  /\ pc = [t \in Threads |-> IF t = Caller THEN "body" ELSE "off"]
  /\ cur = [t \in Threads |-> NoCur]
  /\ guards = [t \in Threads |-> << >>]
  /\ yellow_zone_disabled = [t \in Threads |-> FALSE]
  /\ owns_locks = [t \in Threads |-> FALSE]
  /\ is_compiler = [t \in Threads |-> FALSE]
  /\ poll_armed = [t \in Threads |-> FALSE]
  /\ in_flight_mutex = [t \in Threads |-> NULL]
  /\ release_count = [t \in Threads |-> 0]
  /\ phase = "idle"
  /\ counted = {}
  /\ aborted = FALSE
  /\ call = [actual |-> "none", from |-> "none", to |-> "none",
             async |-> FALSE, stage |-> 0]
  /\ has_async_exception = [t \in Threads |-> FALSE]
  /\ lock_holder = NULL
  /\ dictionary = NoDictionary
  /\ no_safepoint_count = [t \in Threads |-> 0]

NextU ==
  \/ \E kind \in UnknownKinds : ConstructUnknown(Caller, kind)
  \/ \E how \in {"normal", "error"} : BodyExit(Caller, how)
  \/ Fatal(Caller)
  \/ TransitionStep(Caller)
  \/ Coordinator

SpecU == InitU /\ [][NextU]_vars

\* C22: each unknown-context guard (ThreadInVMfromUnknown and
\* JvmtiThreadEventTransition), constructed by a Java thread in any of
\* Managed, Runtime, NativeCode or Blocked and then destroyed, completes
\* without a fatal error and leaves the thread in the state it had before
\* the construction.
C22_UnknownFromEveryState ==
  /\ ~aborted
  /\ (DtorDone(Caller) /\ TopKind(Caller) \in UnknownKinds)
       => thread_state[Caller] = Top(Caller).pre

\* C23: a non-compiler thread that owns a VM lock and leaves an unsafe state
\* for NativeCode fails the asserts of TransitionFromUnsafe::trans before
\* anything is stored, so a transition never puts a lock-owning non-compiler
\* thread into NativeCode; a compiler thread owning a lock passes.
C23_LocksReleasedLeavingVM ==
  [][/\ (owns_locks[Caller] /\ ~is_compiler[Caller]) =>
          /\ (InCall(Caller, "assert_Unsafe") /\ cur[Caller].to = _thread_in_native
                /\ (cur'[Caller] # cur[Caller] \/ aborted' # aborted))
               => /\ aborted'
                  /\ thread_state' = thread_state
                  /\ cur' = cur
          /\ ~(InCall(Caller, "set_thread_state") /\ cur[Caller].to = _thread_in_native
                 /\ cur'[Caller] # cur[Caller])
          /\ thread_state'[Caller] = _thread_in_native
               => thread_state[Caller] = _thread_in_native
     /\ (/\ owns_locks[Caller] /\ is_compiler[Caller]
         /\ InCall(Caller, "assert_Unsafe")
         /\ cur[Caller].from = _thread_in_vm /\ cur[Caller].to = _thread_in_native
         /\ (~has_last_Java_frame[Caller] \/ walkable[Caller])
         /\ (cur'[Caller] # cur[Caller] \/ aborted' # aborted))
          => ~aborted' /\ cur'[Caller].steps = Tail(cur[Caller].steps)
    ]_vars

\* A non-compiler thread in Runtime, owning a lock and with nothing else
\* wrong, was stopped by the assert on its way to NativeCode.
C23_Witness ==
  /\ aborted
  /\ InCall(Caller, "assert_Unsafe")
  /\ cur[Caller].from = _thread_in_vm /\ cur[Caller].to = _thread_in_native
  /\ thread_state[Caller] = _thread_in_vm
  /\ owns_locks[Caller] /\ ~is_compiler[Caller]
  /\ ~has_last_Java_frame[Caller] \/ walkable[Caller]

----------------------------------------------------------------------------
\* Leaf routines: JRT_LEAF is entered from managed or native code without a
\* transition and opens a NoSafepointVerifier scope around its body.
NoSafepointVerifier_ctor(t) ==
  /\ ~aborted
  /\ pc[t] = "body"
  /\ guards[t] = << >>
  /\ thread_state[t] \in {_thread_in_Java, _thread_in_native}
  /\ no_safepoint_count[t] = 0
  /\ no_safepoint_count' = [no_safepoint_count EXCEPT ![t] = @ + 1]
  /\ UNCHANGED <<thread_state, pc, cur, guards, walkable, has_last_Java_frame,
                 yellow_zone_disabled, owns_locks, is_compiler,
                 in_flight_mutex, release_count, current, lock_holder,
                 dictionary,
                 CoordVars, aborted, call, has_async_exception>>

\* The leaf routine returns.
NoSafepointVerifier_dtor(t) ==
  /\ ~aborted
  /\ pc[t] = "body"
  /\ guards[t] = << >>
  /\ no_safepoint_count[t] > 0
  /\ no_safepoint_count' = [no_safepoint_count EXCEPT ![t] = @ - 1]
  /\ UNCHANGED <<thread_state, pc, cur, guards, walkable, has_last_Java_frame,
                 yellow_zone_disabled, owns_locks, is_compiler,
                 in_flight_mutex, release_count, current, lock_holder,
                 dictionary,
                 CoordVars, aborted, call, has_async_exception>>

NextN ==
  \/ Next
  \/ \E t \in Threads : NoSafepointVerifier_ctor(t)
  \/ \E t \in Threads : NoSafepointVerifier_dtor(t)

SpecN == InitA /\ [][NextN]_vars

\* C24: a thread inside a no-safepoint scope never processes a
\* synchronization request: every transition that could process one, the
\* exit of the deadlock-avoiding guard included, aborts first.
C24_LeafNeverAtSafepoint ==
  \A t \in Threads : no_safepoint_count[t] > 0 => pc[t] # "wait"

\* C25: a transition into Managed that completes leaves the yellow/reserved
\* zone enabled: a zone disabled at the start is enabled before Managed is
\* stored, and a zone enabled at the start stays enabled throughout.
C25_YellowZoneEnabledInJava ==
  [][/\ (InCall(Caller, "set_thread_state") /\ cur[Caller].to = _thread_in_Java
           /\ cur'[Caller] # cur[Caller])
          => ~yellow_zone_disabled[Caller]
     /\ (Done(Caller) /\ cur[Caller].to = _thread_in_Java)
          => ~yellow_zone_disabled[Caller]
     /\ (pc[Caller] \in {"run", "wait"} /\ cur[Caller].to = _thread_in_Java
           /\ ~call.pre.yellow_zone_disabled)
          => ~yellow_zone_disabled'[Caller]
    ]_vars

\* A transition into Managed that started with the zone disabled has
\* completed.
C25_Witness ==
  /\ Done(Caller) /\ ~aborted
  /\ cur[Caller].to = _thread_in_Java
  /\ thread_state[Caller] = _thread_in_Java
  /\ call.pre.yellow_zone_disabled
  /\ ~yellow_zone_disabled[Caller]

\* The transitional shadow values of the two unsafe states.
TransitionalStates == { "_thread_in_Java_trans", "_thread_in_vm_trans" }

AbortedUntouched ==
  /\ thread_state[Caller] = call.pre.thread_state
  /\ walkable[Caller] = call.pre.walkable
  /\ in_flight_mutex[Caller] = call.pre.in_flight_mutex
  /\ lock_holder = call.pre.lock_holder
  /\ cur[Caller].polled = "none" /\ ~cur[Caller].waited

\* C28 (as stated): when transition(thread, from, to) aborts, the thread
\* state, the walkability, the yellow/reserved zone and the lock slot are
\* as they were before the call and no request has been processed.
C28_AbortBeforeMutation ==
  aborted =>
    /\ AbortedUntouched
    /\ yellow_zone_disabled[Caller] = call.pre.yellow_zone_disabled

\* C28 (amended): when transition(thread, from, to) aborts, the thread
\* state, the walkability and the lock slot are as they were before the
\* call and no request has been processed; the yellow/reserved zone is as it
\* was too, unless the abort is that of check_possible_safepoint in a
\* transition into Managed, which runs after a disabled zone has been
\* re-enabled.
C28_AbortLeavesState ==
  aborted =>
    /\ AbortedUntouched
    /\ \/ yellow_zone_disabled[Caller] = call.pre.yellow_zone_disabled
       \/ /\ cur[Caller].to = _thread_in_Java
          /\ InCall(Caller, "check_possible_safepoint")
          /\ no_safepoint_count[Caller] > 0
          /\ call.pre.yellow_zone_disabled /\ ~yellow_zone_disabled[Caller]

\* A thread in Managed, its stack not walkable, was stopped by the asserts
\* of TransitionFromUnsafe::trans; the stack is still not walkable.
C28_Witness ==
  /\ aborted
  /\ InCall(Caller, "assert_Unsafe")
  /\ cur[Caller].from = _thread_in_Java
  /\ call.pre.thread_state = _thread_in_Java
  /\ thread_state[Caller] = _thread_in_Java
  /\ ~call.pre.walkable /\ ~walkable[Caller]

----------------------------------------------------------------------------
\* Dictionary (classfile/dictionary.cpp): one bucket of the hashtable, read
\* without a lock by get_entry and purged by do_unloading and
\* remove_classes_in_error_state.

MaxEntries == 2

Entries == 1..MaxEntries

\* The NULL DictionaryEntry*.
NoEntry == 0

\* What decides an entry's removal: its klass is live, its defining loader
\* is unloading, or the klass is in error state.
Klasses == {"live", "unloading", "error"}

\* SafepointSynchronize::is_at_safepoint()
is_at_safepoint == phase = "at_safepoint"

\* probe->next() of a linked entry: the entry after it in the bucket.
next(bucket, e) ==
  LET i == CHOOSE j \in 1..Len(bucket) : bucket[j] = e
  IN  IF i < Len(bucket) THEN bucket[i + 1] ELSE NoEntry

\* for (p = bucket_addr(index); *p != NULL; ) { if (dead) { *p =
\* probe->next(); free_entry(probe); continue; } p = probe->next_addr(); }
Purge(d, dead) ==
  [d EXCEPT !.bucket = SelectSeq(@, LAMBDA e : d.klass[e] # dead),
            !.freed = @ \cup {e \in Entries :
                                /\ \E i \in 1..Len(d.bucket) : d.bucket[i] = e
                                /\ d.klass[e] = dead}]

\* A thread running runtime code calls get_entry (no lock taken) and reads
\* bucket(index).
get_entry_begin(t) ==
  /\ ~aborted
  /\ pc[t] = "body" /\ thread_state[t] = _thread_in_vm
  /\ \A u \in Threads : pc[u] # "read"
  /\ \E name \in Entries \cup {NoEntry} :
       dictionary' = [dictionary EXCEPT
                        !.entry = IF dictionary.bucket = << >> THEN NoEntry
                                  ELSE Head(dictionary.bucket),
                        !.class_name = name]
  /\ pc' = [pc EXCEPT ![t] = "read"]
  /\ UNCHANGED <<thread_state, cur, guards, walkable, has_last_Java_frame,
                 yellow_zone_disabled, owns_locks, is_compiler,
                 in_flight_mutex, release_count, current, no_safepoint_count,
                 lock_holder, CoordVars, aborted, call, has_async_exception>>

\* One iteration of the loop of get_entry: the entry is visited (its hash
\* and name are read) and the traversal returns it or goes on to
\* entry->next().  Reading an entry that was freed is a use after free: what
\* it reads, and so where it goes next, is arbitrary.
get_entry_step(t) ==
  /\ ~aborted
  /\ pc[t] = "read"
  /\ LET e == dictionary.entry IN
       IF e = NoEntry
         THEN /\ UNCHANGED dictionary
              /\ pc' = [pc EXCEPT ![t] = "body"]
       ELSE IF e \in dictionary.freed
         THEN \/ /\ dictionary' = [dictionary EXCEPT !.entry = NoEntry,
                                                     !.visited_freed = TRUE]
                 /\ pc' = [pc EXCEPT ![t] = "body"]
              \/ /\ \E n \in Entries \cup {NoEntry} :
                      dictionary' = [dictionary EXCEPT !.entry = n,
                                                       !.visited_freed = TRUE]
                 /\ UNCHANGED pc
       ELSE \/ /\ e = dictionary.class_name
               /\ dictionary' = [dictionary EXCEPT !.entry = NoEntry]
               /\ pc' = [pc EXCEPT ![t] = "body"]
            \/ /\ e # dictionary.class_name \/ dictionary.DumpSharedSpaces
               /\ dictionary' = [dictionary EXCEPT
                                   !.entry = next(dictionary.bucket, e)]
               /\ UNCHANGED pc
  /\ UNCHANGED <<thread_state, cur, guards, walkable, has_last_Java_frame,
                 yellow_zone_disabled, owns_locks, is_compiler,
                 in_flight_mutex, release_count, current, no_safepoint_count,
                 lock_holder, CoordVars, aborted, call, has_async_exception>>

\* Dictionary::do_unloading, called by the VM thread.
do_unloading ==
  /\ ~aborted
  /\ IF ~is_at_safepoint
       THEN aborted' = TRUE /\ UNCHANGED dictionary
       ELSE /\ dictionary' =
                 IF dictionary.the_null_class_loader_data THEN dictionary
                 ELSE Purge(dictionary, "unloading")
            /\ UNCHANGED aborted
  /\ UNCHANGED <<thread_state, pc, cur, guards, walkable, has_last_Java_frame,
                 yellow_zone_disabled, owns_locks, is_compiler,
                 in_flight_mutex, release_count, current, no_safepoint_count,
                 lock_holder, CoordVars, call, has_async_exception>>

\* Dictionary::remove_classes_in_error_state, called by a thread running
\* runtime code.
remove_classes_in_error_state(t) ==
  /\ ~aborted
  /\ pc[t] = "body" /\ thread_state[t] = _thread_in_vm
  /\ IF ~dictionary.DumpSharedSpaces
       THEN aborted' = TRUE /\ UNCHANGED dictionary
       ELSE /\ dictionary' = Purge(dictionary, "error")
            /\ UNCHANGED aborted
  /\ UNCHANGED <<thread_state, pc, cur, guards, walkable, has_last_Java_frame,
                 yellow_zone_disabled, owns_locks, is_compiler,
                 in_flight_mutex, release_count, current, no_safepoint_count,
                 lock_holder, CoordVars, call, has_async_exception>>

\* Two Java threads in native code, and a dictionary whose bucket holds
\* every entry.
InitD ==
  /\ current = [t \in Threads |-> "JavaThread"]
  /\ thread_state = [t \in Threads |-> _thread_in_native]
  /\ pc = [t \in Threads |-> "body"]
  /\ cur = [t \in Threads |-> NoCur]
  /\ guards = [t \in Threads |-> << >>]
  /\ walkable = [t \in Threads |-> FALSE]
  /\ has_last_Java_frame = [t \in Threads |-> FALSE]
  /\ yellow_zone_disabled = [t \in Threads |-> FALSE]
  /\ owns_locks = [t \in Threads |-> FALSE]
  /\ is_compiler = [t \in Threads |-> FALSE]
  /\ poll_armed = [t \in Threads |-> FALSE]
  /\ in_flight_mutex = [t \in Threads |-> NULL]
  /\ release_count = [t \in Threads |-> 0]
  /\ phase = "idle"
  /\ counted = {}
  /\ aborted = FALSE
  /\ call = [actual |-> "none", from |-> "none", to |-> "none",
             async |-> FALSE, stage |-> 0]
  /\ has_async_exception = [t \in Threads |-> FALSE]
  /\ lock_holder = NULL
  /\ no_safepoint_count = [t \in Threads |-> 0]
  /\ \E klass \in [Entries -> Klasses], dump \in BOOLEAN, null \in BOOLEAN :
       dictionary = [bucket |-> [i \in Entries |-> i],
                     klass |-> klass,
                     freed |-> {},
                     DumpSharedSpaces |-> dump,
                     the_null_class_loader_data |-> null,
                     entry |-> NoEntry,
                     class_name |-> NoEntry,
                     visited_freed |-> FALSE]

\* The threads enter and leave runtime code through ThreadInVMfromNative.
NextD ==
  \/ \E t \in Threads :
       \/ Construct(t, "ThreadInVMfromNative", NULL)
       \/ BodyExit(t, "normal")
       \/ AssertSafeToVM(t)
       \/ CheckPossibleSafepoint(t)
       \/ SetThreadStateFence(t)
       \/ ProcessIfRequested(t)
       \/ Resume(t)
       \/ AssertUnsafe(t)
       \/ SetThreadState(t)
       \/ Return(t)
       \/ get_entry_begin(t)
       \/ get_entry_step(t)
       \/ remove_classes_in_error_state(t)
  \/ do_unloading
  \/ Coordinator

SpecD == InitD /\ [][NextD]_vars

\* C29: a thread traversing a bucket in get_entry, without the lock, never
\* visits an entry that was removed, whichever routine removed it
\* (do_unloading or remove_classes_in_error_state): entries are unlinked and
\* freed only at a safepoint, when no such thread runs.
C29_NoVisitOfRemovedEntry == ~dictionary.visited_freed

====
